---- MODULE Spec2Model ----
(***************************************************************************)
(* Model of the ML grading service (ml-service/main.py): the in-memory     *)
(* model registry (models, scalers, label_encoders), the joblib files on   *)
(* disk, and the request handlers predict, predict_batch, train_model,     *)
(* delete_model, save_model, load_model and create_default_model, with the *)
(* functions extract_features and calculate_score they call.               *)
(*                                                                         *)
(* The scikit-learn estimators are black boxes in the source.  A fitted    *)
(* estimator is modelled by the parameters it learned plus the name of     *)
(* the data it was fitted on ("fit"); fitting is deterministic in the      *)
(* source (random_state=42, np.random.seed(42)), so equal data gives an    *)
(* equal estimator.  A GradientBoostingClassifier fitted on rows that are   *)
(* all alike finds no split and answers every row with the class           *)
(* frequencies of its training labels.  What any other fitted classifier   *)
(* answers (the bootstrap random forest) is fixed by its seed but not      *)
(* derived here: a handler that asks it may get any class index, with a    *)
(* confidence known only to lie in a range, the same answer for the same   *)
(* row within a call.                                                      *)
(***************************************************************************)
EXTENDS Integers, Sequences, FiniteSets, TLC

VARIABLES
    models,          \* dict model_id -> model_info            (main.py:29)
    scalers,         \* dict model_id -> fitted StandardScaler (main.py:30)
    label_encoders,  \* dict model_id -> fitted LabelEncoder   (main.py:31)
    files,           \* the file system: file name -> joblib blob
    request,         \* the request the service handled last
    response,        \* the response it gave to that request
    previous,        \* template_id registered under the request's model_id
                     \* before that request was handled, or "none"
    calls,           \* number of requests handled so far
    pc,              \* per connection: where its handler stands
    local,           \* per connection: the handler's request and local variables
    running          \* the connection whose coroutine the event loop is running

registry == <<models, scalers, label_encoders>>
log == <<request, response, previous, calls>>
tasks == <<pc, local, running>>
vars == <<models, scalers, label_encoders, files, request, response, previous, calls,
          pc, local, running>>

----------------------------------------------------------------------------
(* Bounds of the model *)

\* requests handled in one behaviour
MaxCalls == 3
\* items in one batch request
MaxBatch == 2

----------------------------------------------------------------------------
(* Python dictionaries: a function whose DOMAIN is the set of keys *)

EmptyDict == [k \in {} |-> 0]

\* d[k] = v
DictSet(d, k, v) == [x \in (DOMAIN d) \cup {k} |-> IF x = k THEN v ELSE d[x]]

\* del d[k]
DictDel(d, k) == [x \in (DOMAIN d) \ {k} |-> d[x]]

None == [none |-> TRUE]

\* d.get(k)
DictGet(d, k) == IF k \in DOMAIN d THEN d[k] ELSE None

----------------------------------------------------------------------------
(* Inputs *)

ModelIds == {"A", "B"}
Paths == {"./models", "./backup"}

\* A text (a Python str) is the sequence of the code points of its characters,
\* ord(c) for each c.

\* request.text: '' and 'true'
Texts == {<< >>, <<116, 114, 117, 101>>}

\* np.unique / LabelEncoder order labels alphabetically
LabelRank(l) ==
    CASE l = "BLANK" -> 0
      [] l = "CORRECT" -> 1
      [] l = "INCORRECT" -> 2
      [] l = "PARTIAL" -> 3
      [] l = "SKIPPED" -> 4

Point(text, label) == [text |-> text, label |-> label]

\* 'a', 'true' and 'answer 42!'
Short == <<97>>
Word == <<116, 114, 117, 101>>
Long == <<97, 110, 115, 119, 101, 114, 32, 52, 50, 33>>

\* training sets: nine, ten and twelve data points; Skew10 has one INCORRECT
\* answer among ten
Data9 == [i \in 1..9 |-> Point(Short, IF i % 2 = 0 THEN "CORRECT" ELSE "INCORRECT")]
Data10 == [i \in 1..10 |-> Point(Word, IF i % 2 = 0 THEN "CORRECT" ELSE "INCORRECT")]
Data12 ==
    [i \in 1..12 |->
        Point(Long, IF i % 3 = 0 THEN "SKIPPED" ELSE IF i % 3 = 1 THEN "PARTIAL" ELSE "BLANK")]

Skew10 == [i \in 1..10 |-> Point(Word, IF i = 1 THEN "INCORRECT" ELSE "CORRECT")]

\* TrainingRequest bodies (model_id is chosen by the action); validation_split
\* is in percent
Input9 ==
    [name |-> "data9", template_id |-> "T1", training_data |-> Data9,
     config |-> [model_type |-> "random_forest"]]
Input10 ==
    [name |-> "data10", template_id |-> "T1", training_data |-> Data10,
     config |-> [model_type |-> "gradient_boosting"]]
Input12 ==
    [name |-> "data12", template_id |-> "T2", training_data |-> Data12,
     config |-> [model_type |-> "gradient_boosting"]]

InputSkew ==
    [name |-> "skew10", template_id |-> "T3", training_data |-> Skew10,
     config |-> [model_type |-> "gradient_boosting"]]
InputOneLabel ==
    [name |-> "same10", template_id |-> "T3",
     training_data |-> [i \in 1..10 |-> Point(Word, "CORRECT")],
     config |-> [model_type |-> "gradient_boosting"]]
InputBadSplit ==
    [name |-> "data10", template_id |-> "T1", training_data |-> Data10,
     config |-> [model_type |-> "random_forest", validation_split |-> 150]]

TrainingInputs == {Input9, Input10, Input12, InputSkew, InputOneLabel, InputBadSplit}

----------------------------------------------------------------------------
(* Feature extraction (the part of the vector the model keeps) *)

\* the characters str.strip() removes, those for which str.isspace() is true:
\* \t \n \x0b \x0c \r, \x1c..\x1f, the blank, \x85, \xa0 and the Unicode
\* spaces U+1680, U+2000..U+200A, U+2028, U+2029, U+202F, U+205F, U+3000
Whitespace ==
    (9..13) \cup (28..32) \cup {133, 160, 5760} \cup (8192..8202)
        \cup {8232, 8233, 8239, 8287, 12288}

IsSpace(c) == c \in Whitespace

RECURSIVE LStrip(_)
LStrip(t) == IF t # << >> /\ IsSpace(Head(t)) THEN LStrip(Tail(t)) ELSE t

RECURSIVE RStrip(_)
RStrip(t) ==
    IF t # << >> /\ IsSpace(t[Len(t)]) THEN RStrip(SubSeq(t, 1, Len(t) - 1)) ELSE t

\* the text as it is, not stripped
Strip_None(t) == t

\* text.strip()
Strip(t) == LStrip(RStrip(t))

Min(a, b) == IF a <= b THEN a ELSE b

\* Feature values, the parameters of a scaler and scaled features are counted
\* in ten-thousandths.

\* extract_features: text_length = min(len(text) / 500, 1) and the
\* completeness indicators is_empty, is_very_short, has_content
extract_features(text) ==
    LET stripped == Len(Strip(text))
    IN  [ text_length |-> Min(20 * Len(text), 10000),
          is_empty |-> IF stripped = 0 THEN 1 ELSE 0,
          is_very_short |-> IF stripped < 5 THEN 1 ELSE 0,
          has_content |-> IF stripped >= 10 THEN 1 ELSE 0 ]

----------------------------------------------------------------------------
(* The preprocessing pipeline and the classifier *)

\* X: the text_length column of the feature matrix of a training set
Column(data) == [i \in DOMAIN data |-> extract_features(data[i].text).text_length]

RECURSIVE Sum(_)
Sum(xs) == IF xs = << >> THEN 0 ELSE Head(xs) + Sum(Tail(xs))

\* the integer nearest to a / b for b > 0
RoundDiv(a, b) == (2 * a + b) \div (2 * b)

\* the integer square root of a squared feature value
ISqrt(x) == CHOOSE s \in 0..10000 : s * s <= x /\ (s + 1) * (s + 1) > x

\* the distinct labels of a training set
LabelsOf(data) == {data[i].label : i \in DOMAIN data}

\* the labels of a set in alphabetical order
RECURSIVE SortLabels(_)
SortLabels(S) ==
    IF S = {} THEN << >>
    ELSE LET least == CHOOSE l \in S : \A m \in S : LabelRank(l) <= LabelRank(m)
         IN  <<least>> \o SortLabels(S \ {least})

\* LabelEncoder().fit_transform(y): classes_ is the sorted distinct labels
FitLabelEncoder(name, data) ==
    [kind |-> "LabelEncoder", fit |-> name, classes_ |-> SortLabels(LabelsOf(data))]

\* np.mean(X) and np.var(X), the population variance around the mean
Mean(X) == RoundDiv(Sum(X), Len(X))
Variance(X, mean) == Sum([i \in DOMAIN X |-> (X[i] - mean) * (X[i] - mean)]) \div Len(X)

\* the scale_ of a column of variance var: its standard deviation, 1.0 for a
\* constant column
Scale(var) == IF var = 0 THEN 10000 ELSE ISqrt(var)

\* a StandardScaler fitted on the column X of mean mean
StandardScaler(name, X, mean) ==
    [kind |-> "StandardScaler", fit |-> name, mean_ |-> mean,
     scale_ |-> Scale(Variance(X, mean))]

\* StandardScaler().fit_transform(X): mean_ is the mean of the column and
\* scale_ its (population) standard deviation
FitScaler(name, data) == StandardScaler(name, Column(data), Mean(Column(data)))

\* label_encoder.transform: the index (from 0) of a label in classes_
Encode(encoder, label) ==
    (CHOOSE i \in 1..Len(encoder.classes_) : encoder.classes_[i] = label) - 1

\* config.get(key, default)
ConfigGet(config, key, default) == IF key \in DOMAIN config THEN config[key] ELSE default

\* the default of config['validation_split'], in percent
DefaultSplit == 20

\* np.random.RandomState(42).permutation(n) for the sizes of the training
\* sets: the order in which train_test_split(random_state=42) draws the rows
\* (indices from 0)
Permutation42(n) ==
    CASE n = 10 -> <<8, 1, 5, 0, 7, 2, 9, 4, 3, 6>>
      [] n = 12 -> <<10, 9, 0, 8, 5, 2, 1, 11, 4, 7, 3, 6>>

CeilDiv(a, b) == (a + b - 1) \div b

\* n_test = ceil(test_size * n_samples)
NTest(n, test_size) == CeilDiv(test_size * n, 100)

\* train_test_split raises ValueError for a test_size outside (0, 1) and for
\* an empty training subset
SplitRaises(n, test_size) ==
    test_size <= 0 \/ test_size >= 100 \/ n - NTest(n, test_size) = 0

\* the rows (from 1) of the validation and of the training subset
ValIndices(n, test_size) ==
    [k \in 1..NTest(n, test_size) |-> Permutation42(n)[k] + 1]
TrainIndices(n, test_size) ==
    [k \in 1..(n - NTest(n, test_size)) |-> Permutation42(n)[NTest(n, test_size) + k] + 1]

Rows(column, indices) == [k \in DOMAIN indices |-> column[indices[k]]]

Range(f) == {f[k] : k \in DOMAIN f}

\* np.unique: the distinct values in ascending order
RECURSIVE Unique(_)
Unique(S) ==
    IF S = {} THEN << >>
    ELSE LET least == CHOOSE x \in S : \A y \in S : x <= y
         IN  <<least>> \o Unique(S \ {least})

\* the estimator class train_model constructs for config['model_type']
ClassifierClass(model_type) ==
    IF model_type = "gradient_boosting" THEN "GradientBoostingClassifier"
    ELSE IF model_type = "neural_network" THEN "MLPClassifier"
    ELSE "RandomForestClassifier"

\* the share of every class among the labels y_train, in the order of the
\* classes
ClassPrior(y_train) ==
    LET classes == Unique(Range(y_train))
    IN  [k \in DOMAIN classes |->
            RoundDiv(10000 * Cardinality({i \in DOMAIN y_train : y_train[i] = classes[k]}),
                     Len(y_train))]

\* model.fit(X_train, y_train): the fitted estimator, one class per encoded
\* label that occurs in y_train; constant tells that the rows of X_train are
\* all alike
FitClassifier(name, class, X_train, y_train) ==
    [kind |-> class, fit |-> name, classes_ |-> Unique(Range(y_train)),
     n_classes |-> Cardinality(Range(y_train)), rows |-> Len(X_train),
     constant |-> Cardinality(Range(X_train)) = 1, class_prior_ |-> ClassPrior(y_train)]

\* scaler.transform(features): (x - mean_) / scale_
Transform(scaler, x) == RoundDiv((x - scaler.mean_) * 10000, scaler.scale_)

\* Probabilities and confidences are counted in ten-thousandths.

\* np.argmax: the first index (from 0) holding the maximum
ArgMax(p) ==
    (CHOOSE i \in DOMAIN p :
        /\ \A j \in DOMAIN p : p[j] <= p[i]
        /\ \A j \in DOMAIN p : j < i => p[j] < p[i]) - 1

\* A confidence is kept as the range lo..hi in which the value returned by
\* the code lies; a value that is derived is the range of that value alone.
Exactly(c) == [lo |-> c, hi |-> c]

\* predicted_class_idx = np.argmax(probabilities) and
\* confidence = probabilities[predicted_class_idx]
Top(probabilities) ==
    [argmax |-> ArgMax(probabilities),
     max |-> Exactly(probabilities[ArgMax(probabilities) + 1])]

\* the most classes a classifier has: the four labels of the bootstrap data
MaxClasses == 4

\* a GradientBoostingClassifier fitted on rows that are all alike: its trees
\* have no split and leave the initial prediction, the class frequencies of
\* y_train, as it is
NoSplit(model) == model.kind = "GradientBoostingClassifier" /\ model.constant

\* model.predict(x): the class with the largest probability.  When the two
\* classes of a GradientBoostingClassifier tie exactly, scikit-learn before
\* 1.4 answers the first and scikit-learn from 1.4 on the second; the
\* repository does not fix the version, so either is an answer.
PredictClass(model, probabilities) ==
    IF /\ model.kind = "GradientBoostingClassifier"
       /\ Len(probabilities) = 2
       /\ probabilities[1] = probabilities[2]
    THEN {model.classes_[1], model.classes_[2]}
    ELSE {model.classes_[ArgMax(probabilities) + 1]}

\* needs_review=confidence <= 0.75
needs_review_Inclusive(confidence) == confidence <= 7500

\* needs_review=confidence < 0.75
needs_review(confidence) == confidence < 7500

\* The ranges in which the confidence of a classifier of n classes is kept
\* when its answer is not derived: the values from 1/n, the least the
\* largest of n probabilities can be (3333 holds 1/3, as in ClassPrior), to
\* 1, cut where needs_review changes, so that every value of a range is
\* answered alike.
Ranges ==
    [n \in 1..MaxClasses |->
        LET least == 10000 \div n
            beyond == {c \in least..10000 : needs_review(c) # needs_review(least)}
        IN  IF beyond = {} THEN {[lo |-> least, hi |-> 10000]}
            ELSE {[lo |-> least, hi |-> (CHOOSE c \in beyond : c - 1 \notin beyond) - 1],
                  [lo |-> (CHOOSE c \in beyond : c - 1 \notin beyond), hi |-> 10000]}]

\* What a classifier answers for a row: argmax and max, the largest entry of
\* model.predict_proba(row)[0] and where it stands, and predict, the class of
\* model.predict(row).  A classifier without a split answers its class
\* frequencies; of any other classifier the answer is not derived: any class
\* may be the largest, with a confidence in any of the ranges.
PredictProba(model) ==
    IF NoSplit(model)
    THEN {[argmax |-> Top(model.class_prior_).argmax, max |-> Top(model.class_prior_).max,
           predict |-> class] : class \in PredictClass(model, model.class_prior_)}
    ELSE {[argmax |-> k - 1, max |-> range, predict |-> model.classes_[k]] :
              k \in 1..model.n_classes, range \in Ranges[model.n_classes]}

\* the classifier as it answers during one call of a handler: a function of
\* the row, so equal rows get equal answers
Estimator(model, rows) == [rows -> PredictProba(model)]

\* accuracy_score(y_true, y_pred), in percent
accuracy_score(y_true, y_pred) ==
    (100 * Cardinality({k \in DOMAIN y_true : y_true[k] = y_pred[k]})) \div Len(y_true)

\* confusion_matrix(y_true, y_pred) without labels=: one row and one column
\* per value that occurs in y_true or y_pred, in ascending order
confusion_matrix(y_true, y_pred) ==
    LET labels == Unique(Range(y_true) \cup Range(y_pred))
    IN  [i \in DOMAIN labels |->
            [j \in DOMAIN labels |->
                Cardinality({k \in DOMAIN y_true :
                                 y_true[k] = labels[i] /\ y_pred[k] = labels[j]})]]

\* y_encoded and X_scaled of the training data
EncodeLabels(label_encoder, data) ==
    [i \in DOMAIN data |-> Encode(label_encoder, data[i].label)]
ScaleColumn(scaler, X) == [i \in DOMAIN X |-> Transform(scaler, X[i])]

\* train_model from "# Split data" to "# Train model" on the encoded labels and
\* the scaled column: the split, the classifier fitted on the training
\* subset, and the validation subset
SplitRows(t, label_encoder, scaler, y_encoded, X_scaled, train, val) ==
    [ label_encoder |-> label_encoder, scaler |-> scaler,
      model |-> FitClassifier(t.name,
                              ClassifierClass(ConfigGet(t.config, "model_type", "random_forest")),
                              Rows(X_scaled, train), Rows(y_encoded, train)),
      model_type |-> ConfigGet(t.config, "model_type", "random_forest"),
      X_val |-> Rows(X_scaled, val), y_val |-> Rows(y_encoded, val) ]

SplitAndFit(t, label_encoder, scaler, test_size) ==
    SplitRows(t, label_encoder, scaler,
              EncodeLabels(label_encoder, t.training_data),
              ScaleColumn(scaler, Column(t.training_data)),
              TrainIndices(Len(t.training_data), test_size),
              ValIndices(Len(t.training_data), test_size))

\* train_model from "# Extract features and labels" to "# Train model": the
\* label encoder, the scaler and the classifier it fits on the training data
\* of t, and the validation subset
Pipeline(t) ==
    SplitAndFit(t, FitLabelEncoder(t.name, t.training_data), FitScaler(t.name, t.training_data),
                ConfigGet(t.config, "validation_split", DefaultSplit))

\* the labels of the training subset
TrainLabels(t) ==
    LET train == TrainIndices(Len(t.training_data),
                              ConfigGet(t.config, "validation_split", DefaultSplit))
    IN  {t.training_data[train[k]].label : k \in DOMAIN train}

\* train_test_split raises on the training data of t, or model.fit does:
\* GradientBoostingClassifier.fit raises ValueError when y_train holds fewer
\* than two classes
FitRaises(t) ==
    \/ SplitRaises(Len(t.training_data),
                   ConfigGet(t.config, "validation_split", DefaultSplit))
    \/ /\ ClassifierClass(ConfigGet(t.config, "model_type", "random_forest"))
              = "GradientBoostingClassifier"
       /\ Cardinality(TrainLabels(t)) < 2

\* The fitting is deterministic in the training data and the config
\* (random_state=42).  Its result for every training input that passes the
\* size check is evaluated once: the Pipeline, None when the split or the
\* fit raises
Pipelines ==
    [t \in {u \in TrainingInputs : Len(u.training_data) >= 10} |->
        IF FitRaises(t) THEN None ELSE Pipeline(t)]

\* model.predict(X_val)
ValPredictions(fit, answers) ==
    [k \in DOMAIN fit.X_val |-> answers[fit.X_val[k]].predict]

\* "# Evaluate": the accuracy and the confusion matrix of the predictions on
\* the validation subset
Measure(fit, val_predictions) ==
    [ label_encoder |-> fit.label_encoder, scaler |-> fit.scaler, model |-> fit.model,
      model_type |-> fit.model_type,
      val_accuracy |-> accuracy_score(fit.y_val, val_predictions),
      conf_matrix |-> confusion_matrix(fit.y_val, val_predictions) ]

Evaluate(fit, answers) == Measure(fit, ValPredictions(fit, answers))

\* train_model from "# Extract features and labels" to "# Evaluate": what
\* it fits and measures on the training data of t when the fitted classifier
\* gives answers on the validation rows
Fitting(t, answers) == Evaluate(Pipelines[t], answers)

\* the ways the classifier of a pipeline may answer on its validation rows
EstimatorsOf(fit) == Estimator(fit.model, Range(fit.X_val))

Evaluations(fit) ==
    [answers \in EstimatorsOf(fit) |-> Evaluate(fit, answers)]

\* the Fitting of every such input for every way the classifier may answer
Fitted ==
    [t \in {u \in TrainingInputs : Len(u.training_data) >= 10 /\ ~FitRaises(u)} |->
        Evaluations(Pipelines[t])]

\* the training input a TrainingRequest carries
Body(req) ==
    [name |-> req.name, template_id |-> req.template_id,
     training_data |-> req.training_data, config |-> req.config]

PipelineOf(req) == Pipelines[Body(req)]

\* the split or the fit of a request that passed the size check raises
Raises(req) == FitRaises(Body(req))

FittingOf(req, answers) == Fitted[Body(req)][answers]

\* label_encoder.inverse_transform([idx]) raises ValueError outside classes_
CanInverse(encoder, idx) == idx < Len(encoder.classes_)
InverseTransform(encoder, idx) == encoder.classes_[idx + 1]

\* the fallback ordering of predict
class_labels == <<"CORRECT", "PARTIAL", "INCORRECT", "SKIPPED">>

\* Points (max_points, assigned_score) are counted in thousandths of a point,
\* multipliers in percent.

\* score_multipliers.get(correctness, 0.0)
score_multipliers(correctness) ==
    CASE correctness = "CORRECT" -> 100
      [] correctness = "PARTIAL" -> 50
      [] correctness = "INCORRECT" -> 0
      [] correctness = "SKIPPED" -> 0
      [] OTHER -> 0

\* the binary exponent of num / den: the e with 2^e <= num / den < 2^(e + 1)
RECURSIVE BinaryExponent(_, _)
BinaryExponent(num, den) ==
    IF num >= 2 * den THEN BinaryExponent(num, 2 * den) + 1
    ELSE IF num < den THEN BinaryExponent(2 * num, den) - 1
    ELSE 0

\* 2^e modulo 25
RECURSIVE Pow2Mod25(_)
Pow2Mod25(e) == IF e = 0 THEN 1 ELSE (2 * Pow2Mod25(e - 1)) % 25

\* A decimal n / 200 with n odd lies halfway between two multiples of 0.01.
\* Its double is the nearest multiple of 2^(e - 52), e the binary exponent of
\* n / 200: it lies above n / 200, below it, or is n / 200 itself, as the
\* remainder of n * 2^(52 - e) by 200 is more than 100, less than 100 or 0
\* (that is, as n * 2^(49 - e) modulo 25 is above 12, below 13 or 0).
DoubleOfTie(n) ==
    LET rem == (n * Pow2Mod25(49 - BinaryExponent(n, 200))) % 25
    IN  IF rem = 0 THEN "exact" ELSE IF rem >= 13 THEN "above" ELSE "below"

\* round(x, 2) of the double nearest to x = hundred_thousandths / 100000, in
\* thousandths: Python rounds the value the double holds, so a decimal tie
\* goes the way its double lies, and to the even digit when the double is
\* exact (0.125 -> 0.12, 0.375 -> 0.38, but 0.175 -> 0.17 and 0.005 -> 0.01)
Round2(hundred_thousandths) ==
    LET q == hundred_thousandths \div 1000
        r == hundred_thousandths % 1000
        up == IF r = 500
              THEN LET side == DoubleOfTie(hundred_thousandths \div 500)
                   IN  side = "above" \/ (side = "exact" /\ q % 2 = 1)
              ELSE r > 500
    IN  10 * (IF up THEN q + 1 ELSE q)

\* calculate_score weighting the score by the confidence
calculate_score_Weighted(correctness, max_points, confidence) ==
    Round2((max_points * score_multipliers(correctness) * confidence) \div 10000)

\* calculate_score(correctness, max_points, confidence)
calculate_score(correctness, max_points, confidence) ==
    Round2(max_points * score_multipliers(correctness))


----------------------------------------------------------------------------
(* The registry as a value, and the handlers as functions on it *)

Registry(m, s, e) == [models |-> m, scalers |-> s, label_encoders |-> e]

EmptyRegistry == Registry(EmptyDict, EmptyDict, EmptyDict)

\* the synthetic data of create_default_model: four labels, and features
\* drawn by np.random.randn(100, 20) after np.random.seed(42)
SyntheticLabels == {"CORRECT", "PARTIAL", "INCORRECT", "SKIPPED"}

DefaultClassifier ==
    [kind |-> "RandomForestClassifier", fit |-> "synthetic", classes_ |-> <<0, 1, 2, 3>>,
     n_classes |-> Cardinality(SyntheticLabels), rows |-> 100, constant |-> FALSE]
\* the scaler fitted on the synthetic features: their first column has mean
\* 0.1488 and standard deviation 0.9289
DefaultScaler ==
    [kind |-> "StandardScaler", fit |-> "synthetic", mean_ |-> 1488, scale_ |-> 9289]
DefaultEncoder ==
    [kind |-> "LabelEncoder", fit |-> "synthetic", classes_ |-> SortLabels(SyntheticLabels)]

\* create_default_model without "label_encoders[model_id] = label_encoder"
create_default_model_NoEncoder(reg, model_id) ==
    Registry(
        DictSet(reg.models, model_id,
            [model |-> DefaultClassifier, template_id |-> "default",
             accuracy |-> 0, model_type |-> "RandomForestClassifier"]),
        DictSet(reg.scalers, model_id, DefaultScaler),
        reg.label_encoders)

\* create_default_model(model_id): stores the bootstrap entry
create_default_model(reg, model_id) ==
    Registry(
        DictSet(reg.models, model_id,
            [model |-> DefaultClassifier, template_id |-> "default",
             accuracy |-> 0, model_type |-> "RandomForestClassifier"]),
        DictSet(reg.scalers, model_id, DefaultScaler),
        DictSet(reg.label_encoders, model_id, DefaultEncoder))

HttpError(status, detail) == [status |-> status, detail |-> detail]
Ok(body) == [status |-> 200, body |-> body]

\* the features predict hands to the classifier: scaled if a scaler exists
ScaledFeatures(scaler, text) ==
    LET features == extract_features(text).text_length
    IN  IF scaler # None THEN Transform(scaler, features) ELSE features

\* predict from "# Decode label" on: the response for a class index and
\* a confidence.  calculate_score does not read the confidence and
\* needs_review is the same for every value of a range, so both are taken at
\* its lower end.
Prediction(label_encoder, req, predicted_class_idx, confidence) ==
    IF label_encoder # None /\ ~CanInverse(label_encoder, predicted_class_idx)
    THEN HttpError(500, "Internal Server Error")
    ELSE LET predicted_correctness ==
                 IF label_encoder # None
                 THEN InverseTransform(label_encoder, predicted_class_idx)
                 ELSE class_labels[(predicted_class_idx % Len(class_labels)) + 1]
         IN  Ok([ region_id |-> req.region_id,
                  predicted_correctness |-> predicted_correctness,
                  confidence |-> confidence,
                  assigned_score |->
                      calculate_score(predicted_correctness, req.max_points, confidence.lo),
                  needs_review |-> needs_review(confidence.lo) ])

\* predict from "# Extract features" on, on the three objects it read
Infer(model, scaler, label_encoder, req, answers) ==
    Prediction(label_encoder, req, answers[ScaledFeatures(scaler, req.text)].argmax,
               answers[ScaledFeatures(scaler, req.text)].max)

\* every response the pipeline of the three objects can give to req
Inferences(model, scaler, label_encoder, req) ==
    { Infer(model, scaler, label_encoder, req, answers) :
          answers \in Estimator(model, {ScaledFeatures(scaler, req.text)}) }

\* the registry predict works on: with the bootstrap entry if the id has none
Served(reg, model_id) ==
    IF model_id \notin DOMAIN reg.models THEN create_default_model(reg, model_id) ELSE reg

\* predict(request) when the classifier gives answers: the registry
\* after the call and the response
predict(reg, req, answers) ==
    LET after == Served(reg, req.model_id)
    IN  [reg |-> after,
         response |-> Infer(after.models[req.model_id].model,
                            DictGet(after.scalers, req.model_id),
                            DictGet(after.label_encoders, req.model_id),
                            req, answers)]

\* every outcome of predict(request) on a registry
predict_results(reg, req) ==
    LET after == Served(reg, req.model_id)
    IN  { predict(reg, req, answers) :
              answers \in
                  Estimator(after.models[req.model_id].model,
                            {ScaledFeatures(DictGet(after.scalers, req.model_id), req.text)}) }

\* the responses among them
predict_responses(reg, req) ==
    LET after == Served(reg, req.model_id)
    IN  Inferences(after.models[req.model_id].model,
                   DictGet(after.scalers, req.model_id),
                   DictGet(after.label_encoders, req.model_id), req)

\* predict_batch(request): predict on every item in turn, with the batch's
\* model_id written into the item; an item that raises ends the batch
RECURSIVE BatchLoop(_, _, _, _, _)
BatchLoop(reg, model_id, items, results, answers) ==
    IF items = << >> THEN [reg |-> reg, response |-> Ok(results)]
    ELSE LET pred_request == [Head(items) EXCEPT !.model_id = model_id]
             one == predict(reg, pred_request, answers)
         IN  IF one.response.status # 200
             THEN [reg |-> one.reg, response |-> one.response]
             ELSE BatchLoop(one.reg, model_id, Tail(items),
                            Append(results, one.response.body), answers)

predict_batch(reg, req, answers) ==
    BatchLoop(reg, req.model_id, req.predictions, << >>, answers)

\* every outcome of predict_batch(request) on a registry: all items are
\* answered by the classifier of the batch's model_id
predict_batch_results(reg, req) ==
    LET after == Served(reg, req.model_id)
        scaler == DictGet(after.scalers, req.model_id)
        rows == {ScaledFeatures(scaler, req.predictions[i].text) : i \in DOMAIN req.predictions}
    IN  { predict_batch(reg, req, answers) :
              answers \in Estimator(after.models[req.model_id].model, rows) }

\* the smallest training set train_model accepts
MinSamples == 10

\* len(request.training_data) < 10
TooFew_Inclusive(data) == Len(data) <= MinSamples
TooFew(data) == Len(data) < MinSamples

\* train_model from "# Store model" on: the three stores and the response
Store(reg, req, fitted) ==
    [reg |-> Registry(
           DictSet(reg.models, req.model_id,
               [model |-> fitted.model, template_id |-> req.template_id,
                accuracy |-> fitted.val_accuracy,
                model_type |-> fitted.model_type]),
           DictSet(reg.scalers, req.model_id, fitted.scaler),
           DictSet(reg.label_encoders, req.model_id, fitted.label_encoder)),
     response |-> Ok([model_id |-> req.model_id,
                      validation_accuracy |-> fitted.val_accuracy,
                      confusion_matrix |-> fitted.conf_matrix])]

\* train_model storing the label encoder and the scaler as soon as they are
\* fitted, before the split
train_model_StoresEarly(reg, req, answers) ==
    IF TooFew(req.training_data)
    THEN [reg |-> reg, response |-> HttpError(400, "At least 10 training samples required")]
    ELSE LET early == Registry(
                          reg.models,
                          DictSet(reg.scalers, req.model_id,
                                  FitScaler(req.name, req.training_data)),
                          DictSet(reg.label_encoders, req.model_id,
                                  FitLabelEncoder(req.name, req.training_data)))
         IN  IF Raises(req)
             THEN [reg |-> early, response |-> HttpError(500, "Internal Server Error")]
             ELSE Store(early, req, FittingOf(req, answers))

\* train_model storing the scaler with setdefault: an earlier scaler stays
train_model_KeepsScaler(reg, req, answers) ==
    IF TooFew(req.training_data)
    THEN [reg |-> reg, response |-> HttpError(400, "At least 10 training samples required")]
    ELSE IF Raises(req)
    THEN [reg |-> reg, response |-> HttpError(500, "Internal Server Error")]
    ELSE LET stored == Store(reg, req, FittingOf(req, answers))
         IN  [stored EXCEPT !.reg.scalers =
                  IF req.model_id \in DOMAIN reg.scalers THEN reg.scalers ELSE @]

\* train_model(request) when the fitted classifier gives answers on
\* the validation rows: the size check, the fitting (an exception of the
\* split or the fit is answered 500), then the three stores
train_model(reg, req, answers) ==
    IF TooFew(req.training_data)
    THEN [reg |-> reg, response |-> HttpError(400, "At least 10 training samples required")]
    ELSE IF Raises(req)
    THEN [reg |-> reg, response |-> HttpError(500, "Internal Server Error")]
    ELSE Store(reg, req, FittingOf(req, answers))

\* the classifier is never asked
Unasked == [row \in {} |-> << >>]

\* the ways the classifier fitted for req may answer on the validation rows;
\* it is not asked when the call ends before "# Evaluate"
ValidationEstimators(req) ==
    IF TooFew(req.training_data) \/ Raises(req) THEN {Unasked}
    ELSE EstimatorsOf(PipelineOf(req))

\* every outcome of train_model(request) on a registry
train_model_results(reg, req) ==
    { train_model(reg, req, answers) : answers \in ValidationEstimators(req) }

\* delete_model emptying the three dictionaries
delete_model_ClearsAll(reg, model_id) ==
    IF model_id \in DOMAIN reg.models
    THEN [reg |-> EmptyRegistry, response |-> Ok([message |-> "deleted"])]
    ELSE [reg |-> reg, response |-> HttpError(404, "Model not found")]

\* delete_model without "del label_encoders[model_id]"
delete_model_KeepsEncoder(reg, model_id) ==
    IF model_id \in DOMAIN reg.models
    THEN [reg |-> Registry(DictDel(reg.models, model_id),
                           DictDel(reg.scalers, model_id),
                           reg.label_encoders),
          response |-> Ok([message |-> "deleted"])]
    ELSE [reg |-> reg, response |-> HttpError(404, "Model not found")]

\* delete_model without "del scalers[model_id]"
delete_model_KeepsScaler(reg, model_id) ==
    IF model_id \in DOMAIN reg.models
    THEN [reg |-> Registry(DictDel(reg.models, model_id),
                           reg.scalers,
                           DictDel(reg.label_encoders, model_id)),
          response |-> Ok([message |-> "deleted"])]
    ELSE [reg |-> reg, response |-> HttpError(404, "Model not found")]

\* delete_model(model_id)
delete_model(reg, model_id) ==
    IF model_id \in DOMAIN reg.models
    THEN [reg |-> Registry(DictDel(reg.models, model_id),
                           DictDel(reg.scalers, model_id),
                           DictDel(reg.label_encoders, model_id)),
          response |-> Ok([message |-> "deleted"])]
    ELSE [reg |-> reg, response |-> HttpError(404, "Model not found")]

----------------------------------------------------------------------------
(* Persistence: joblib files named after the path and the model id *)

Suffixes == {"_model.joblib", "_scaler.joblib", "_encoder.joblib"}

\* f"{path}/{model_id}_model.joblib" and its two siblings
FileName(path, model_id, suffix) == <<path, model_id, suffix>>

\* joblib.dump(obj, file) writes a pickle of obj; joblib.load reads it back
Dump(obj) == [joblib |-> obj]
Load(blob) == blob.joblib

\* save_model without the dump of the label encoder
save_model_SkipsEncoder(reg, fs, model_id, path) ==
    IF model_id \notin DOMAIN reg.models
    THEN [files |-> fs, response |-> HttpError(404, "Model not found")]
    ELSE LET f1 == DictSet(fs, FileName(path, model_id, "_model.joblib"),
                           Dump(reg.models[model_id].model))
             f2 == IF model_id \in DOMAIN reg.scalers
                   THEN DictSet(f1, FileName(path, model_id, "_scaler.joblib"),
                                Dump(reg.scalers[model_id]))
                   ELSE f1
         IN  [files |-> f2, response |-> Ok([message |-> "saved"])]

\* save_model(model_id, path): the files after the call and the response
save_model(reg, fs, model_id, path) ==
    IF model_id \notin DOMAIN reg.models
    THEN [files |-> fs, response |-> HttpError(404, "Model not found")]
    ELSE LET model_info == reg.models[model_id]
             f1 == DictSet(fs, FileName(path, model_id, "_model.joblib"),
                           Dump(model_info.model))
             f2 == IF model_id \in DOMAIN reg.scalers
                   THEN DictSet(f1, FileName(path, model_id, "_scaler.joblib"),
                                Dump(reg.scalers[model_id]))
                   ELSE f1
             f3 == IF model_id \in DOMAIN reg.label_encoders
                   THEN DictSet(f2, FileName(path, model_id, "_encoder.joblib"),
                                Dump(reg.label_encoders[model_id]))
                   ELSE f2
         IN  [files |-> f3, response |-> Ok([message |-> "saved"])]

\* load_model dropping the registered entry before it looks for the file
load_model_DropsEntry(reg, fs, model_id, path) ==
    LET cleared == Registry(DictDel(reg.models, model_id),
                            DictDel(reg.scalers, model_id),
                            DictDel(reg.label_encoders, model_id))
        model_path == FileName(path, model_id, "_model.joblib")
        scaler_path == FileName(path, model_id, "_scaler.joblib")
        encoder_path == FileName(path, model_id, "_encoder.joblib")
    IN  IF model_path \notin DOMAIN fs
        THEN [reg |-> cleared, response |-> HttpError(404, "Model file not found")]
        ELSE [reg |-> Registry(
                    DictSet(cleared.models, model_id,
                        [model |-> Load(fs[model_path]), template_id |-> "loaded",
                         accuracy |-> 0, model_type |-> Load(fs[model_path]).kind]),
                    IF scaler_path \in DOMAIN fs
                    THEN DictSet(cleared.scalers, model_id, Load(fs[scaler_path]))
                    ELSE cleared.scalers,
                    IF encoder_path \in DOMAIN fs
                    THEN DictSet(cleared.label_encoders, model_id, Load(fs[encoder_path]))
                    ELSE cleared.label_encoders),
              response |-> Ok([message |-> "loaded"])]

\* load_model(model_id, path): the registry after the call and the response
load_model(reg, fs, model_id, path) ==
    LET model_path == FileName(path, model_id, "_model.joblib")
        scaler_path == FileName(path, model_id, "_scaler.joblib")
        encoder_path == FileName(path, model_id, "_encoder.joblib")
    IN  IF model_path \notin DOMAIN fs
        THEN [reg |-> reg, response |-> HttpError(404, "Model file not found")]
        ELSE LET model == Load(fs[model_path])
             IN  [reg |-> Registry(
                        DictSet(reg.models, model_id,
                            [model |-> model, template_id |-> "loaded",
                             accuracy |-> 0, model_type |-> model.kind]),
                        IF scaler_path \in DOMAIN fs
                        THEN DictSet(reg.scalers, model_id, Load(fs[scaler_path]))
                        ELSE reg.scalers,
                        IF encoder_path \in DOMAIN fs
                        THEN DictSet(reg.label_encoders, model_id, Load(fs[encoder_path]))
                        ELSE reg.label_encoders),
                  response |-> Ok([message |-> "loaded"])]

----------------------------------------------------------------------------
(* Initial state *)

\* the blob an earlier run left under a suffix for the pipeline fitted on t
SavedBlob(t, suffix) ==
    Dump(CASE suffix = "_model.joblib" -> Pipeline(t).model
           [] suffix = "_scaler.joblib" -> Pipeline(t).scaler
           [] suffix = "_encoder.joblib" -> Pipeline(t).label_encoder)

\* the files of the pipeline fitted on t that are present under path for id
SavedFiles(path, id, t, present) ==
    [f \in {FileName(path, id, x) : x \in present} |-> SavedBlob(t, f[3])]

Merge(f, g) == [x \in (DOMAIN f) \cup (DOMAIN g) |-> IF x \in DOMAIN f THEN f[x] ELSE g[x]]

\* what the disk may hold when the service starts: under ./models any of the
\* three files of one pipeline saved for model A (the scaler and the encoder
\* file are optional, and a model file may have been removed), and under
\* ./backup nothing or a complete pipeline saved for A by another training run
InitialFiles ==
    { Merge(SavedFiles("./models", "A", Input12, present),
            SavedFiles("./backup", "A", Input10, backup)) :
        present \in SUBSET Suffixes, backup \in {{}, Suffixes} }

Current == Registry(models, scalers, label_encoders)

Startup == [op |-> "startup"]
NoResponse == [status |-> 0]

Connections == {"c1", "c2"}

\* the value of running when the event loop runs no coroutine
NoCoroutine == "none"

Idle == [c \in Connections |-> "idle"]
NoLocals == [c \in Connections |-> None]

Init ==
    /\ models = EmptyDict
    /\ scalers = EmptyDict
    /\ label_encoders = EmptyDict
    /\ files \in InitialFiles
    /\ request = Startup
    /\ response = NoResponse
    /\ previous = "none"
    /\ calls = 0
    /\ pc = Idle
    /\ local = NoLocals
    /\ running = NoCoroutine

----------------------------------------------------------------------------
(* Requests *)

\* PredictionRequest.max_points: float = 10.0
DefaultMaxPoints == 10000

PredictionRequests ==
    [op : {"predict"}, model_id : ModelIds, region_id : {"r1"}, text : Texts,
     max_points : {DefaultMaxPoints}]

\* the items a batch is made of: each names its own model and region
BatchItems ==
    << [op |-> "predict", model_id |-> "A", region_id |-> "r1", text |-> Word,
        max_points |-> DefaultMaxPoints],
       [op |-> "predict", model_id |-> "B", region_id |-> "r2", text |-> Word,
        max_points |-> DefaultMaxPoints] >>

\* the batches of up to MaxBatch items: the two items in turn
Batches == { [i \in 1..n |-> BatchItems[((i - 1) % 2) + 1]] : n \in 0..MaxBatch }

BatchRequests ==
    [op : {"predict_batch"}, model_id : ModelIds, predictions : Batches]

\* the model ids train_model is called for
TrainIds == {"A"}

TrainingRequests ==
    { [op |-> "train", model_id |-> id, name |-> t.name, template_id |-> t.template_id,
       training_data |-> t.training_data, config |-> t.config] :
        id \in TrainIds, t \in TrainingInputs }

Install(reg) ==
    /\ models' = reg.models
    /\ scalers' = reg.scalers
    /\ label_encoders' = reg.label_encoders

\* the template_id registered under model_id, "none" when there is no entry
TemplateOf(reg, model_id) ==
    IF model_id \in DOMAIN reg.models THEN reg.models[model_id].template_id ELSE "none"

Handled(req, resp) ==
    /\ calls < MaxCalls
    /\ calls' = calls + 1
    /\ request' = req
    /\ response' = resp
    /\ previous' = IF req = Startup THEN "none" ELSE TemplateOf(Current, req.model_id)
    /\ UNCHANGED tasks

----------------------------------------------------------------------------
(* The handlers.  Every endpoint is an async def without a suspension      *)
(* point, so the event loop runs each call to completion: one action.      *)
(* The bound on the calls is asked first, before the outcomes are computed.*)

Predict ==
    /\ calls < MaxCalls
    /\ \E req \in PredictionRequests :
           \E r \in predict_results(Current, req) :
               /\ Install(r.reg)
               /\ Handled(req, r.response)
               /\ UNCHANGED files

PredictBatch ==
    /\ calls < MaxCalls
    /\ \E req \in BatchRequests :
           \E r \in predict_batch_results(Current, req) :
               /\ Install(r.reg)
               /\ Handled(req, r.response)
               /\ UNCHANGED files

Train ==
    /\ calls < MaxCalls
    /\ \E req \in TrainingRequests :
           \E r \in train_model_results(Current, req) :
               /\ Install(r.reg)
               /\ Handled(req, r.response)
               /\ UNCHANGED files

Delete ==
    \E id \in ModelIds :
        \E r \in {delete_model(Current, id)} :
            /\ Install(r.reg)
            /\ Handled([op |-> "delete", model_id |-> id], r.response)
            /\ UNCHANGED files

Save ==
    \E id \in ModelIds, path \in Paths :
        \E r \in {save_model(Current, files, id, path)} :
            /\ files' = r.files
            /\ Handled([op |-> "save", model_id |-> id, path |-> path], r.response)
            /\ UNCHANGED registry

LoadModel ==
    \E id \in ModelIds, path \in Paths :
        \E r \in {load_model(Current, files, id, path)} :
            /\ Install(r.reg)
            /\ Handled([op |-> "load", model_id |-> id, path |-> path], r.response)
            /\ UNCHANGED files

\* the process is restarted: the module-level dictionaries start empty again,
\* the files stay
Restart ==
    /\ Install(EmptyRegistry)
    /\ Handled(Startup, NoResponse)
    /\ UNCHANGED files

Next ==
    \/ Predict
    \/ PredictBatch
    \/ Train
    \/ Delete
    \/ Save
    \/ LoadModel
    \/ Restart

Spec == Init /\ [][Next]_vars

----------------------------------------------------------------------------
(* The handlers step by step, for requests in flight at the same time.     *)
(* Each connection sends a request; the event loop picks a pending request *)
(* and runs its coroutine.  predict, train_model and create_default_model  *)
(* are async def and never await anything that suspends (await             *)
(* create_default_model(...) runs the callee in place), so a coroutine     *)
(* keeps the loop until it returns.                                        *)

\* the requests of this specification: train and predict on model A
InFlightRequests ==
    {r \in TrainingRequests \cup PredictionRequests : r.model_id = "A"}

\* the event loop can start a coroutine only when none is running
LoopFree_Threaded == TRUE
LoopFree == running = NoCoroutine

SetLocal(c, value) == local' = [local EXCEPT ![c] = value]
Goto(c, label) == pc' = [pc EXCEPT ![c] = label]

\* the coroutine of c returns resp: the loop is free again
Return(c, resp) ==
    /\ SetLocal(c, [local[c] EXCEPT !.response = resp])
    /\ Goto(c, "done")
    /\ running' = NoCoroutine

\* a request arrives on connection c
Accept(c) ==
    /\ pc[c] = "idle"
    /\ \E req \in InFlightRequests :
           SetLocal(c, [request |-> req, model_info |-> None, scaler |-> None,
                        label_encoder |-> None, conf_matrix |-> None,
                        response |-> NoResponse])
    /\ Goto(c, "pending")
    /\ UNCHANGED <<registry, files, log, running>>

\* the event loop starts the handler of a pending request
Start(c) ==
    /\ pc[c] = "pending"
    /\ LoopFree
    /\ running' = c
    /\ Goto(c, IF local[c].request.op = "train" THEN "train_fit" ELSE "get_model")
    /\ UNCHANGED <<registry, files, log, local>>

\* the local variables of train_model after "# Evaluate"
Keep(locals, req, fitted) ==
    [locals EXCEPT
        !.model_info = [model |-> fitted.model, template_id |-> req.template_id,
                        accuracy |-> fitted.val_accuracy, model_type |-> fitted.model_type],
        !.scaler = fitted.scaler,
        !.label_encoder = fitted.label_encoder,
        !.conf_matrix = fitted.conf_matrix]

\* train_model up to "# Store model": the size check and the fitting, which
\* ends the call when the split raises
TrainFit(c) ==
    /\ pc[c] = "train_fit"
    /\ LET req == local[c].request
       IN  IF TooFew(req.training_data)
           THEN Return(c, HttpError(400, "At least 10 training samples required"))
           ELSE IF Raises(req)
           THEN Return(c, HttpError(500, "Internal Server Error"))
           ELSE \E answers \in ValidationEstimators(req) :
                    /\ SetLocal(c, Keep(local[c], req, FittingOf(req, answers)))
                    /\ Goto(c, "store_model")
                    /\ UNCHANGED running
    /\ UNCHANGED <<registry, files, log>>

\* models[request.model_id] = {...}
StoreModel(c) ==
    /\ pc[c] = "store_model"
    /\ models' = DictSet(models, local[c].request.model_id, local[c].model_info)
    /\ Goto(c, "store_scaler")
    /\ UNCHANGED <<scalers, label_encoders, files, log, local, running>>

\* scalers[request.model_id] = scaler
StoreScaler(c) ==
    /\ pc[c] = "store_scaler"
    /\ scalers' = DictSet(scalers, local[c].request.model_id, local[c].scaler)
    /\ Goto(c, "store_encoder")
    /\ UNCHANGED <<models, label_encoders, files, log, local, running>>

\* label_encoders[request.model_id] = label_encoder; return TrainingResponse
StoreEncoder(c) ==
    /\ pc[c] = "store_encoder"
    /\ label_encoders' =
           DictSet(label_encoders, local[c].request.model_id, local[c].label_encoder)
    /\ Return(c, Ok([model_id |-> local[c].request.model_id,
                     validation_accuracy |-> local[c].model_info.accuracy,
                     confusion_matrix |-> local[c].conf_matrix]))
    /\ UNCHANGED <<models, scalers, files, log>>

\* model_info = models.get(request.model_id); model = model_info['model']
GetModel(c) ==
    /\ pc[c] = "get_model"
    /\ IF local[c].request.model_id \in DOMAIN models
       THEN /\ SetLocal(c, [local[c] EXCEPT
                    !.model_info = models[local[c].request.model_id]])
            /\ Goto(c, "read_scaler")
       ELSE /\ Goto(c, "default_model")
            /\ UNCHANGED local
    /\ UNCHANGED <<registry, files, log, running>>

\* create_default_model: models[model_id] = {...}
DefaultModel(c) ==
    /\ pc[c] = "default_model"
    /\ models' = create_default_model(Current, local[c].request.model_id).models
    /\ Goto(c, "default_scaler")
    /\ UNCHANGED <<scalers, label_encoders, files, log, local, running>>

\* create_default_model: scalers[model_id] = scaler
DefaultScalerStep(c) ==
    /\ pc[c] = "default_scaler"
    /\ scalers' = create_default_model(Current, local[c].request.model_id).scalers
    /\ Goto(c, "default_encoder")
    /\ UNCHANGED <<models, label_encoders, files, log, local, running>>

\* create_default_model: label_encoders[model_id] = label_encoder;
\* return models[model_id]
DefaultEncoderStep(c) ==
    /\ pc[c] = "default_encoder"
    /\ label_encoders' =
           create_default_model(Current, local[c].request.model_id).label_encoders
    /\ SetLocal(c, [local[c] EXCEPT
            !.model_info = DictGet(models, local[c].request.model_id)])
    /\ Goto(c, "read_scaler")
    /\ UNCHANGED <<models, scalers, files, log, running>>

\* scaler = scalers.get(request.model_id)
ReadScaler(c) ==
    /\ pc[c] = "read_scaler"
    /\ SetLocal(c, [local[c] EXCEPT !.scaler = DictGet(scalers, local[c].request.model_id)])
    /\ Goto(c, "read_encoder")
    /\ UNCHANGED <<registry, files, log, running>>

\* label_encoder = label_encoders.get(request.model_id)
ReadEncoder(c) ==
    /\ pc[c] = "read_encoder"
    /\ SetLocal(c, [local[c] EXCEPT
            !.label_encoder = DictGet(label_encoders, local[c].request.model_id)])
    /\ Goto(c, "respond")
    /\ UNCHANGED <<registry, files, log, running>>

\* the rest of predict: features, probabilities, decoding, the response
Respond(c) ==
    /\ pc[c] = "respond"
    /\ IF local[c].model_info = None
       THEN Return(c, HttpError(500, "Internal Server Error"))
       ELSE \E resp \in Inferences(local[c].model_info.model, local[c].scaler,
                                   local[c].label_encoder, local[c].request) :
                Return(c, resp)
    /\ UNCHANGED <<registry, files, log>>

\* the response is sent; the connection can send its next request
Reply(c) ==
    /\ pc[c] = "done"
    /\ Goto(c, "idle")
    /\ SetLocal(c, None)
    /\ UNCHANGED <<registry, files, log, running>>

InitInFlight == Init /\ files = EmptyDict

NextInFlight ==
    \E c \in Connections :
        \/ Accept(c)
        \/ Start(c)
        \/ TrainFit(c)
        \/ StoreModel(c)
        \/ StoreScaler(c)
        \/ StoreEncoder(c)
        \/ GetModel(c)
        \/ DefaultModel(c)
        \/ DefaultScalerStep(c)
        \/ DefaultEncoderStep(c)
        \/ ReadScaler(c)
        \/ ReadEncoder(c)
        \/ Respond(c)
        \/ Reply(c)

SpecInFlight == InitInFlight /\ [][NextInFlight]_vars

----------------------------------------------------------------------------
(* The functions behind predict, called on their own: request is the call  *)
(* and response the value returned.                                        *)

\* longest run of non-space characters in a probe text
MaxTextLen == 11
\* most spaces before and after it
MaxPad == 2

\* labels handed to calculate_score: the five of the service and one it does
\* not know
ScoreLabels == {"BLANK", "CORRECT", "INCORRECT", "PARTIAL", "SKIPPED", "UNKNOWN"}

\* max_points: 10.0, 7.5, 2.675, 0.35, 0.333, 0.25, 0.015 and 0.005
MaxPointsValues == {DefaultMaxPoints, 7500, 2675, 350, 333, 250, 15, 5}

Confidences == {0, 4444, 7400, 7500, 7600, 8750, 10000}

\* whitespace characters: blank, \t, \xa0, \r, \x0c, U+2003, \n, \x85
WhiteSamples == <<32, 9, 160, 13, 12, 8195, 10, 133>>

\* n whitespace characters, taken in turn from the samples after the first
\* skip of them
Spaces(n, skip) == [i \in 1..n |-> WhiteSamples[((i + skip - 1) % Len(WhiteSamples)) + 1]]

\* n characters without a space at either end ('x'): a blank inside from
\* the third on
Core(n) == [i \in 1..n |-> IF i = 3 /\ n > 3 THEN 32 ELSE 120]

\* Core(n) between l and r whitespace characters, the samples taken from
\* the k-th on
Padded(l, n, r, k) == Spaces(l, k) \o Core(n) \o Spaces(r, k + 3)

\* lengths around the 500 characters at which text_length stops growing
LongLengths == {499, 500, 501}

Called(req, result) ==
    /\ request' = req
    /\ response' = result
    /\ UNCHANGED <<registry, files, previous, calls, tasks>>

ScoreCalls ==
    [op : {"calculate_score"}, correctness : ScoreLabels, max_points : MaxPointsValues,
     confidence : Confidences]

\* the calls of extract_features: core is the length of the text without
\* the whitespace around it
FeatureCalls ==
    { [op |-> "extract_features", text |-> Padded(l, n, r, k), core |-> n] :
        l \in 0..MaxPad, n \in (0..MaxTextLen) \cup LongLengths, r \in 0..MaxPad,
        k \in 0..(Len(WhiteSamples) - 1) }

\* probability vectors handed to the part of predict after predict_proba: a
\* largest entry just below, at and just above 0.75 in the first, the last
\* and a middle place, a tie, the class frequencies of data12 and skew10,
\* four classes close together and a single class
ProbabilityVectors ==
    {<<7499, 2501>>, <<2500, 7500>>, <<7500, 2500>>, <<7501, 2499>>, <<5000, 5000>>,
     <<8750, 1250>>, <<3333, 2222, 4444>>, <<1250, 7500, 1250>>, <<1251, 7499, 1250>>,
     <<3200, 2400, 2300, 2100>>, <<1000, 1000, 500, 7500>>, <<10000>>}

\* the calls of that part of predict: the request of each batch item, the
\* probabilities, and the label encoder it decodes with (none, the
\* bootstrap one, the two labels of data10)
PredictionCalls ==
    { [op |-> "prediction", label_encoder |-> encoder, probabilities |-> p,
       region_id |-> BatchItems[i].region_id, max_points |-> BatchItems[i].max_points] :
        encoder \in {None, DefaultEncoder, FitLabelEncoder("data10", Data10)},
        p \in ProbabilityVectors, i \in DOMAIN BatchItems }

CalculateScore ==
    \E call \in ScoreCalls :
        Called(call, calculate_score(call.correctness, call.max_points, call.confidence))

ExtractFeatures ==
    \E call \in FeatureCalls : Called(call, extract_features(call.text))

InitFunctions == Init /\ files = EmptyDict

\* predict from np.argmax on, for every such call
Predictions ==
    [call \in PredictionCalls |->
        Prediction(call.label_encoder, call, Top(call.probabilities).argmax,
                   Top(call.probabilities).max)]

PredictOnProbabilities ==
    \E call \in PredictionCalls : Called(call, Predictions[call])

NextFunctions == CalculateScore \/ ExtractFeatures \/ PredictOnProbabilities

SpecFunctions == InitFunctions /\ [][NextFunctions]_vars

----------------------------------------------------------------------------
(* Properties *)

\* the three objects registered under a model id, None for a missing one
Classifier(reg, id) == IF id \in DOMAIN reg.models THEN reg.models[id].model ELSE None
Triple(reg, id) ==
    <<Classifier(reg, id), DictGet(reg.scalers, id), DictGet(reg.label_encoders, id)>>

Labels == {"BLANK", "CORRECT", "INCORRECT", "PARTIAL", "SKIPPED"}

\* a PredictionResponse for the request req
WellFormed(body, req) ==
    /\ body.region_id = req.region_id
    /\ body.predicted_correctness \in Labels
    /\ body.confidence.lo \in 0..10000
    /\ body.confidence.hi \in body.confidence.lo..10000
    /\ body.needs_review \in BOOLEAN

\* C1: in every reachable state the scaler and the label encoder registered
\* under a model id were fitted together with the classifier registered
\* under that id.
C1_FitTogether ==
    \A id \in DOMAIN models :
        /\ id \in DOMAIN scalers => scalers[id].fit = models[id].model.fit
        /\ id \in DOMAIN label_encoders => label_encoders[id].fit = models[id].model.fit

\* C2: with train(A) and predict(A) in flight together, the classifier,
\* scaler and label encoder one predict read and used belong to one registry
\* entry: all three were fitted together.
C2_NoTornRead ==
    \A c \in Connections :
        (pc[c] = "done" /\ local[c].request.op = "predict") =>
            /\ local[c].model_info # None
            /\ local[c].scaler # None
            /\ local[c].label_encoder # None
            /\ local[c].scaler.fit = local[c].model_info.model.fit
            /\ local[c].label_encoder.fit = local[c].model_info.model.fit

\* a predict has read the classifier and the scaler of A while a train for A
\* on other data is waiting on the other connection
C2_Witness ==
    \E c, d \in Connections :
        /\ pc[c] = "read_encoder"
        /\ pc[d] = "pending"
        /\ local[d].request.op = "train"
        /\ ~TooFew(local[d].request.training_data)
        /\ local[d].request.name # local[c].model_info.model.fit

\* C3: predict for a model id that is not registered answers 200 with a
\* well-formed prediction, and afterwards the id is registered with the
\* bootstrap classifier, scaler and encoder under template_id "default".
C3_PredictBootstraps ==
    [][ (request'.op = "predict" /\ request'.model_id \notin DOMAIN models) =>
            LET id == request'.model_id
            IN  /\ response'.status = 200
                /\ WellFormed(response'.body, request')
                /\ id \in DOMAIN models'
                /\ id \in DOMAIN scalers'
                /\ id \in DOMAIN label_encoders'
                /\ models'[id].template_id = "default"
                /\ scalers'[id].fit = models'[id].model.fit
                /\ label_encoders'[id].fit = models'[id].model.fit ]_vars

\* a predict for an unregistered id was answered while another model, trained
\* before, is registered
C3_Witness ==
    /\ request.op = "predict"
    /\ previous = "none"
    /\ response.status = 200
    /\ \E other \in DOMAIN models : models[other].template_id = "T1"

\* C4: a successful train replaces the whole entry: classifier, scaler,
\* label encoder, template_id and model_type under the model id are the ones
\* this call fitted, and the next predict for the id uses exactly those three
\* objects (and changes nothing).
C4_TrainReplaces ==
    [][ (request'.op = "train" /\ response'.status = 200) =>
            LET req == request'
                id == req.model_id
                fitted == PipelineOf(req)
            IN  /\ models'[id].model = fitted.model
                /\ models'[id].template_id = req.template_id
                /\ models'[id].model_type = req.config.model_type
                /\ scalers'[id] = fitted.scaler
                /\ label_encoders'[id] = fitted.label_encoder
                /\ \A p \in PredictionRequests :
                       p.model_id = id =>
                           /\ predict_responses(Current', p) =
                                  Inferences(fitted.model, fitted.scaler,
                                             fitted.label_encoder, p)
                           /\ Served(Current', id) = Current' ]_vars

\* a train succeeded for an id under which a loaded entry was registered
C4_Witness ==
    /\ request.op = "train"
    /\ response.status = 200
    /\ previous = "loaded"

\* C5: delete_model of a registered id removes its classifier, scaler and
\* label encoder together; delete_model of an unregistered id answers 404
\* and leaves the registry as it was.
C5_DeleteRemovesAll ==
    [][ request'.op = "delete" =>
            LET id == request'.model_id
            IN  IF id \in DOMAIN models
                THEN /\ response'.status = 200
                     /\ id \notin DOMAIN models'
                     /\ id \notin DOMAIN scalers'
                     /\ id \notin DOMAIN label_encoders'
                ELSE /\ response' = HttpError(404, "Model not found")
                     /\ registry' = registry ]_vars

\* a delete succeeded for an id that held a trained entry
C5_Witness ==
    /\ request.op = "delete"
    /\ response.status = 200
    /\ previous = "T1"
    /\ request.model_id \notin DOMAIN scalers

\* C6: train with fewer than 10 data points answers 400 (insufficient data)
\* and leaves the registry as it was; train with exactly 10 is not rejected
\* for insufficient data.
C6_InsufficientData ==
    [][ request'.op = "train" =>
            /\ Len(request'.training_data) < 10 =>
                   /\ response' = HttpError(400, "At least 10 training samples required")
                   /\ registry' = registry
            /\ Len(request'.training_data) = 10 => response'.status # 400 ]_vars

\* a train with nine data points was rejected while the id held an entry
C6_Witness ==
    /\ request.op = "train"
    /\ Len(request.training_data) = 9
    /\ response.status = 400
    /\ previous = "default"
    /\ request.model_id \in DOMAIN models

\* C7: right after a successful save_model(id, path), load_model(id, path)
\* into an empty registry gives an entry with the classifier, scaler and
\* label encoder of the saved entry, and predict answers the same on both.
C7_RoundTrip ==
    [][ (request'.op = "save" /\ response'.status = 200) =>
            LET id == request'.model_id
                loaded == load_model(EmptyRegistry, files', id, request'.path)
            IN  /\ loaded.response.status = 200
                /\ Triple(loaded.reg, id) = Triple(Current, id)
                /\ \A p \in PredictionRequests :
                       p.model_id = id =>
                           predict_responses(loaded.reg, p) = predict_responses(Current, p) ]_vars

\* C8: load_model answers 404 (model file not found) whenever the model file
\* of the id is absent, whatever other files exist, and then leaves the
\* registry as it was.
C8_LoadNeedsModelFile ==
    [][ ( /\ request'.op = "load"
          /\ FileName(request'.path, request'.model_id, "_model.joblib") \notin DOMAIN files ) =>
            /\ response' = HttpError(404, "Model file not found")
            /\ registry' = registry ]_vars

\* a load was refused although a scaler file exists for the id, and the id
\* holds an entry
C8_Witness ==
    /\ request.op = "load"
    /\ response.status = 404
    /\ FileName(request.path, request.model_id, "_scaler.joblib") \in DOMAIN files
    /\ previous = "default"
    /\ request.model_id \in DOMAIN models

\* the file under a name, None when there is none
FileAt(fs, name) == IF name \in DOMAIN fs THEN fs[name] ELSE None

\* C9: save_model never changes the registry; for an unregistered id it
\* answers 404 and writes nothing; otherwise it writes the classifier file,
\* the scaler file exactly when the id has a scaler, the encoder file
\* exactly when the id has a label encoder, and no other file.
C9_SaveWrites ==
    [][ request'.op = "save" =>
            LET id == request'.model_id
                path == request'.path
                model_file == FileName(path, id, "_model.joblib")
                scaler_file == FileName(path, id, "_scaler.joblib")
                encoder_file == FileName(path, id, "_encoder.joblib")
            IN  /\ registry' = registry
                /\ IF id \notin DOMAIN models
                   THEN /\ response' = HttpError(404, "Model not found")
                        /\ files' = files
                   ELSE /\ response'.status = 200
                        /\ FileAt(files', model_file) = Dump(models[id].model)
                        /\ FileAt(files', scaler_file) =
                               IF id \in DOMAIN scalers THEN Dump(scalers[id])
                               ELSE FileAt(files, scaler_file)
                        /\ FileAt(files', encoder_file) =
                               IF id \in DOMAIN label_encoders THEN Dump(label_encoders[id])
                               ELSE FileAt(files, encoder_file)
                        /\ \A name \in (DOMAIN files) \cup (DOMAIN files') :
                               name \notin {model_file, scaler_file, encoder_file} =>
                                   FileAt(files', name) = FileAt(files, name) ]_vars

\* a save succeeded for an entry that has a label encoder but no scaler
C9_Witness ==
    /\ request.op = "save"
    /\ response.status = 200
    /\ request.model_id \in DOMAIN label_encoders
    /\ request.model_id \notin DOMAIN scalers
    /\ FileName(request.path, request.model_id, "_encoder.joblib") \in DOMAIN files

\* C10: predict_batch returns one result per item, in the order of the items
\* (result i carries the region_id of item i), each predicted against the
\* batch's model_id; an unregistered batch model_id is bootstrapped once.
C10_BatchResults ==
    [][ request'.op = "predict_batch" =>
            LET id == request'.model_id
                items == request'.predictions
            IN  /\ response'.status = 200
                /\ Len(response'.body) = Len(items)
                /\ \A i \in 1..Len(items) :
                       /\ response'.body[i].region_id = items[i].region_id
                       /\ Ok(response'.body[i]) \in
                              predict_responses(Current', [items[i] EXCEPT !.model_id = id])
                /\ Current' = IF id \in DOMAIN models \/ items = << >>
                              THEN Current
                              ELSE create_default_model(Current, id) ]_vars

\* What holds of predict_batch in every state: the registry changes only by
\* the single bootstrap of an unregistered batch model_id, and a batch that is
\* answered 200 has one result per item, in order, each the prediction for
\* the batch's model_id.
BatchServedInOrder ==
    [][ request'.op = "predict_batch" =>
            LET id == request'.model_id
                items == request'.predictions
            IN  /\ Current' = IF id \in DOMAIN models \/ items = << >>
                              THEN Current
                              ELSE create_default_model(Current, id)
                /\ response'.status = 200 =>
                       /\ Len(response'.body) = Len(items)
                       /\ \A i \in 1..Len(items) :
                              /\ response'.body[i].region_id = items[i].region_id
                              /\ Ok(response'.body[i]) \in
                                     predict_responses(
                                         Current', [items[i] EXCEPT !.model_id = id]) ]_vars

\* predict's "if label_encoder: ... else: class_labels[...]": the label is
\* decoded through the fallback ordering when the id has no label encoder
DecodesByFallback(reg, model_id) == DictGet(reg.label_encoders, model_id) = None

\* C11: predict decodes through the fallback ordering class_labels only for
\* the bootstrap entry (template_id "default"); for an entry installed by
\* train_model or load_model it never does.
C11_FallbackOnlyBootstrap ==
    [][ (request'.op = "predict" /\ response'.status = 200) =>
            LET id == request'.model_id
            IN  DecodesByFallback(Current', id) =>
                    TemplateOf(Current', id) = "default" ]_vars

\* C12: a successful train_model returns a confusion matrix that is square
\* with one row and one column per distinct label of the training data.
C12_ConfusionMatrixSide ==
    (request.op = "train" /\ response.status = 200) =>
        LET matrix == response.body.confusion_matrix
            side == Cardinality(LabelsOf(request.training_data))
        IN  /\ Len(matrix) = side
            /\ \A i \in DOMAIN matrix : Len(matrix[i]) = side

\* C13 as claimed: assigned_score is max_points times the multiplier of the
\* label (CORRECT 1.0, PARTIAL 0.5, every other label 0.0), whatever the
\* confidence.
C13_ScoreIsProduct ==
    request.op = "calculate_score" =>
        LET multiplier == CASE request.correctness = "CORRECT" -> 100
                            [] request.correctness = "PARTIAL" -> 50
                            [] OTHER -> 0
        IN  /\ 100 * response = request.max_points * multiplier
            /\ \A confidence \in Confidences :
                   calculate_score(request.correctness, request.max_points, confidence)
                       = response

\* C13, amended: assigned_score is max_points times the multiplier of the
\* label rounded to two decimal places (a multiple of 0.01 at most 0.005 away
\* from the product), whatever the confidence.
C13_ScoreIsRoundedProduct ==
    request.op = "calculate_score" =>
        LET multiplier == CASE request.correctness = "CORRECT" -> 100
                            [] request.correctness = "PARTIAL" -> 50
                            [] OTHER -> 0
            product == request.max_points * multiplier
        IN  /\ response % 10 = 0
            /\ 100 * response - product \in -500..500
            /\ \A confidence \in Confidences :
                   calculate_score(request.correctness, request.max_points, confidence)
                       = response

\* calculate_score('PARTIAL', 0.35, 0.4444) returned 0.17: the double of 0.175
\* lies below 0.175
C13_Witness ==
    /\ request.op = "calculate_score"
    /\ request.correctness = "PARTIAL"
    /\ request.max_points = 350
    /\ request.confidence = 4444
    /\ response = 170

\* the review flag of a prediction follows its confidence: true when every
\* value of the range is below 0.75, false when none is
ReviewFollowsConfidence(body) ==
    /\ body.needs_review = (body.confidence.hi < 7500)
    /\ body.needs_review = ~(body.confidence.lo >= 7500)

\* C14: in every prediction needs_review is true exactly when the returned
\* confidence, the largest of the probabilities of the classifier, is below
\* 0.75 (false at 0.75 itself), whatever the label, the place of the largest
\* probability and the label encoder of the entry.
C14_NeedsReview ==
    (request.op = "prediction" /\ response.status = 200) =>
        LET probabilities == request.probabilities
            confidence == response.body.confidence
        IN  /\ confidence.lo = confidence.hi
            /\ \E i \in DOMAIN probabilities : probabilities[i] = confidence.lo
            /\ \A i \in DOMAIN probabilities : probabilities[i] <= confidence.lo
            /\ response.body.needs_review = (confidence.lo < 7500)
            /\ ReviewFollowsConfidence(response.body)

\* the probabilities (0.25, 0.75) decoded with the bootstrap label encoder:
\* INCORRECT with confidence exactly 0.75 and no review
C14_Witness ==
    /\ request.op = "prediction"
    /\ request.probabilities = <<2500, 7500>>
    /\ request.label_encoder = DefaultEncoder
    /\ response.status = 200
    /\ response.body.confidence = Exactly(7500)
    /\ ~response.body.needs_review

\* In every prediction the service returns, by predict or in a batch, from
\* the bootstrap, a trained or a loaded entry, the review flag follows the
\* confidence.
ServedReviewFollowsConfidence ==
    /\ (request.op = "predict" /\ response.status = 200) =>
           ReviewFollowsConfidence(response.body)
    /\ (request.op = "predict_batch" /\ response.status = 200) =>
           \A i \in DOMAIN response.body : ReviewFollowsConfidence(response.body[i])

\* C15: the completeness flags of extract_features depend only on the length
\* of the text without its leading and trailing whitespace: is_empty iff 0,
\* is_very_short iff below 5, has_content iff 10 or more; so has_content is
\* never 1 with is_empty or is_very_short, is_empty implies is_very_short,
\* and for lengths 5..9 all three are 0.
C15_CompletenessFlags ==
    request.op = "extract_features" =>
        LET trimmed == request.core
            flags == response
        IN  /\ (flags.is_empty = 1 \/ flags.is_very_short = 1) => flags.has_content = 0
            /\ flags.is_empty = 1 => flags.is_very_short = 1
            /\ flags.is_empty = 1 <=> trimmed = 0
            /\ flags.is_very_short = 1 <=> trimmed < 5
            /\ flags.has_content = 1 <=> trimmed >= 10
            /\ {flags.is_empty, flags.is_very_short, flags.has_content} \subseteq {0, 1}
            /\ trimmed \in 5..9 =>
                   flags.is_empty = 0 /\ flags.is_very_short = 0 /\ flags.has_content = 0

\* a text of 13 characters, 9 without the whitespace around it (it starts
\* with \xa0 and \r and ends in U+2003 and \n), has no flag
C15_Witness ==
    /\ request.op = "extract_features"
    /\ request.core = 9
    /\ Len(request.text) = 13
    /\ request.text[1] = 160
    /\ request.text[12] = 8195
    /\ response.has_content = 0
    /\ response.is_very_short = 0

\* C16: after a successful load_model(id, path) the entry of id holds the
\* classifier of the model file with template_id "loaded" and accuracy 0.0,
\* its scaler is the one in the scaler file and its label encoder the one in
\* the encoder file; where such a file is absent the id has no scaler (no
\* label encoder), whatever was registered under it before.
C16_LoadInstallsFiles ==
    [][ (request'.op = "load" /\ response'.status = 200) =>
            LET id == request'.model_id
                path == request'.path
                scaler_file == FileAt(files, FileName(path, id, "_scaler.joblib"))
                encoder_file == FileAt(files, FileName(path, id, "_encoder.joblib"))
            IN  /\ id \in DOMAIN models'
                /\ models'[id].model = Load(files[FileName(path, id, "_model.joblib")])
                /\ models'[id].template_id = "loaded"
                /\ models'[id].accuracy = 0
                /\ DictGet(scalers', id) =
                       IF scaler_file = None THEN None ELSE Load(scaler_file)
                /\ DictGet(label_encoders', id) =
                       IF encoder_file = None THEN None ELSE Load(encoder_file) ]_vars

\* What holds of load_model in every state: a successful load installs the
\* classifier of the model file with template_id "loaded" and accuracy 0.0,
\* and the scaler and the label encoder of the files that exist; where a
\* file is absent, what was registered under the id before stays.
LoadInstallsPresentFiles ==
    [][ (request'.op = "load" /\ response'.status = 200) =>
            LET id == request'.model_id
                path == request'.path
                scaler_file == FileAt(files, FileName(path, id, "_scaler.joblib"))
                encoder_file == FileAt(files, FileName(path, id, "_encoder.joblib"))
            IN  /\ id \in DOMAIN models'
                /\ models'[id].model = Load(files[FileName(path, id, "_model.joblib")])
                /\ models'[id].template_id = "loaded"
                /\ models'[id].accuracy = 0
                /\ DictGet(scalers', id) =
                       IF scaler_file = None THEN DictGet(scalers, id) ELSE Load(scaler_file)
                /\ DictGet(label_encoders', id) =
                       IF encoder_file = None THEN DictGet(label_encoders, id)
                       ELSE Load(encoder_file) ]_vars

\* C17: in every state reached by complete calls, every model id with a
\* registered scaler or label encoder has a registered classifier: the keys of
\* scalers and of label_encoders are keys of models.
C17_NoOrphans ==
    /\ DOMAIN scalers \subseteq DOMAIN models
    /\ DOMAIN label_encoders \subseteq DOMAIN models

\* an entry that had a scaler and a label encoder was deleted while another
\* id stays registered with both
C17_Witness ==
    /\ request.op = "delete"
    /\ response.status = 200
    /\ previous = "T2"
    /\ request.model_id \notin DOMAIN models
    /\ \E other \in DOMAIN models :
           other \in DOMAIN scalers /\ other \in DOMAIN label_encoders

\* the whole entry of an id: model_info, scaler and label encoder
Entry(reg, id) ==
    <<DictGet(reg.models, id), DictGet(reg.scalers, id), DictGet(reg.label_encoders, id)>>

\* C18: a call for model id A (predict, predict_batch, train_model,
\* delete_model, save_model, load_model) leaves the classifier, the metadata,
\* the scaler and the label encoder of every other id as they were; and a
\* predict for a registered id leaves the whole registry as it was.
C18_OtherEntriesUntouched ==
    [][ request'.op \in {"predict", "predict_batch", "train", "delete", "save", "load"} =>
            /\ \A other \in ModelIds \ {request'.model_id} :
                   Entry(Current', other) = Entry(Current, other)
            /\ (request'.op = "predict" /\ request'.model_id \in DOMAIN models) =>
                   registry' = registry ]_vars

\* a train_model replaced the loaded entry of A while B is registered
C18_Witness ==
    /\ request.op = "train"
    /\ request.model_id = "A"
    /\ response.status = 200
    /\ previous = "loaded"
    /\ "B" \in DOMAIN models
    /\ "B" \in DOMAIN scalers

\* C19: a train_model call that passes the size check and then fails (the
\* split or the fit raises) leaves the registry as it was: the entry
\* registered under the id before, if any, is still there with its
\* classifier, scaler and label encoder, and the next predict for the id
\* answers from it as it would have before the call.
C19_FailedTrainKeepsEntry ==
    [][ ( /\ request'.op = "train"
          /\ Len(request'.training_data) >= 10
          /\ response'.status # 200 ) =>
            /\ registry' = registry
            /\ \A p \in PredictionRequests :
                   p.model_id = request'.model_id =>
                       predict_results(Current', p) = predict_results(Current, p) ]_vars

\* a train_model with ten data points failed for an id that holds a trained
\* entry
C19_Witness ==
    /\ request.op = "train"
    /\ Len(request.training_data) = 10
    /\ response.status = 500
    /\ previous = "T2"
    /\ request.model_id \in DOMAIN models
    /\ models[request.model_id].template_id = "T2"
    /\ label_encoders[request.model_id].fit = "data12"

====
